---- MODULE Spec2Model ----
(***************************************************************************)
(* Model of the integration service's pipeline API (api/pipeline.py) and   *)
(* of the graph-generation step of its orchestration service               *)
(* (services/orchestration_service.py).                                    *)
(*                                                                         *)
(* Strings are sequences of one-character strings, so that strip(),        *)
(* lower(), endswith() and int() are computed and not assumed.             *)
(* Optional[str] is a record [some, val]; None is [some |-> FALSE].        *)
(***************************************************************************)
EXTENDS Integers, Sequences, FiniteSets, TLC

\* ------------------------------------------------------------------- state
\* POST /mine-patterns
VARIABLES
    mine_pc,        \* "idle" | "mining" (config handed to the mining stage) | "raised"
    mine_job,       \* job_id of the mine-patterns request
    mine_form,      \* the raw form values of the request, by parameter name
    mining_config,  \* the dict passed to orchestration_service.mine_patterns
    metadata        \* per job: the graph type recorded in the job's metadata

mineVars == <<mine_pc, mine_job, mine_form, mining_config, metadata>>

\* POST /generate-graph, one entry per request
VARIABLES
    pc,            \* per request: "idle" | "staging" | "posting" | "copying" | "done"
    files,         \* per request: the uploaded files' names, in order
    payload,       \* per request: which config/schema payload it carries
    temp_dir,      \* per request: "none" | "exists" | "removed" (its mkdtemp directory)
    staged,        \* per request: number of uploads written into temp_dir
    called,        \* per request: the orchestration call was issued
    open_handles,  \* per request: data-file handles opened and not closed
    gn_outcome,    \* per request: how _generate_networkx ended: "none" | "returned" | "raised"
    orch_result,   \* per request: what generate_networkx gave the handler
    replicated,    \* per request: outcome of _copy_to_shared_volume
    http_status,   \* per request: status sent to the client (0: none yet)
    detail,        \* per request: the failure text sent to the client
    config_file,   \* <tmp>/config.json, one path for the whole process
    schema_file    \* <tmp>/schema.json, one path for the whole process

genVars ==
    <<pc, files, payload, temp_dir, staged, called, open_handles, gn_outcome,
      orch_result, replicated, http_status, detail, config_file, schema_file>>

\* GET /mining-status and GET /download-result, and the Job Store they read
VARIABLES
    job_dir,       \* per job: its directory in the shared volume: [exists, results]
    progress,      \* per job: its progress record: [state, data]
    st_pc,         \* get_mining_status: "idle" | "checked" (exists() was true) | "done"
    st_job,        \* get_mining_status: job_id
    st_read,       \* get_mining_status: what open()/json.load() met
    st_outcome,    \* get_mining_status: [raised, val]
    dl_pc,         \* download_result: "idle" | "done"
    dl_job,        \* download_result: job_id
    dl_filename,   \* download_result: filename (Optional, a path as its components)
    dl_exc,        \* download_result: the exception the Job Store raised ("" if none)
    dl_status      \* download_result: status sent to the client

readVars ==
    <<job_dir, progress, st_pc, st_job, st_read, st_outcome, dl_pc, dl_job,
      dl_filename, dl_exc, dl_status>>

vars == <<mineVars, genVars, readVars>>

\* ------------------------------------------------------------------ bounds
\* Longest client-supplied form string that is enumerated.
MaxLen == 2

\* ----------------------------------------------------------------- strings
None == [some |-> FALSE, val |-> <<>>]
Some(s) == [some |-> TRUE, val |-> s]

Whitespace == {" "}
DigitChars == {"0", "1", "2", "3", "4", "5", "6", "7", "8", "9"}
DigitVal(c) ==
    CASE c = "0" -> 0 [] c = "1" -> 1 [] c = "2" -> 2 [] c = "3" -> 3
      [] c = "4" -> 4 [] c = "5" -> 5 [] c = "6" -> 6 [] c = "7" -> 7
      [] c = "8" -> 8 [] c = "9" -> 9

\* str.strip(): drop leading and trailing whitespace.
RECURSIVE LStrip(_)
LStrip(s) ==
    IF s /= <<>> /\ Head(s) \in Whitespace THEN LStrip(Tail(s)) ELSE s
RECURSIVE RStrip(_)
RStrip(s) ==
    IF s /= <<>> /\ s[Len(s)] \in Whitespace
    THEN RStrip(SubSeq(s, 1, Len(s) - 1)) ELSE s
Strip(s) == RStrip(LStrip(s))

\* str.lower() on the letters the model's strings use.
UpperChars == {"T", "D", "G", "R"}
LowerChar(c) ==
    CASE c = "T" -> "t" [] c = "D" -> "d" [] c = "G" -> "g" [] c = "R" -> "r"
      [] OTHER -> c
Lower(s) == [i \in 1..Len(s) |-> LowerChar(s[i])]

\* All sequences over alphabet A of length at most n.
RECURSIVE SeqsUpTo(_, _)
SeqsUpTo(A, n) ==
    IF n = 0 THEN {<<>>}
    ELSE LET shorter == SeqsUpTo(A, n - 1)
         IN  shorter \cup {Append(s, c) : s \in shorter, c \in A}

\* int(str): surrounding whitespace is ignored, then an optional sign, then
\* digits in which single underscores may separate digits.  Anything else is
\* a ValueError.
RECURSIVE DigitsValue(_, _)
DigitsValue(s, acc) ==
    IF s = <<>> THEN acc
    ELSE IF Head(s) = "_" THEN DigitsValue(Tail(s), acc)
    ELSE DigitsValue(Tail(s), acc * 10 + DigitVal(Head(s)))
IsDigitBody(b) ==
    /\ b /= <<>>
    /\ \A i \in 1..Len(b) : b[i] \in DigitChars \cup {"_"}
    /\ b[1] \in DigitChars
    /\ b[Len(b)] \in DigitChars
    /\ \A i \in 1..(Len(b) - 1) : ~(b[i] = "_" /\ b[i + 1] = "_")
PyInt(s) ==
    LET t    == Strip(s)
        sgn  == t /= <<>> /\ Head(t) \in {"-", "+"}
        body == IF sgn THEN Tail(t) ELSE t
        mag  == DigitsValue(body, 0)
    IN  IF IsDigitBody(body)
        THEN [ok |-> TRUE, val |-> IF sgn /\ Head(t) = "-" THEN 0 - mag ELSE mag]
        ELSE [ok |-> FALSE, val |-> 0]

\* ---------------------------------------------------------- _parse_int_form
\* The result of a call: the value returned, or raised = TRUE.
Returned(v) == [raised |-> FALSE, val |-> v]
Raised == [raised |-> TRUE, val |-> 0]

_parse_int_form_no_except(value, default) ==
    IF ~value.some THEN Returned(default)
    ELSE LET s == Strip(value.val)
         IN  IF s = <<>> THEN Returned(default)
             ELSE IF PyInt(s).ok THEN Returned(PyInt(s).val) ELSE Raised

_parse_int_form(value, default) ==
    IF ~value.some THEN Returned(default)
    ELSE LET s == Strip(value.val)
         IN  IF s = <<>> THEN Returned(default)
             ELSE IF PyInt(s).ok THEN Returned(PyInt(s).val)
             ELSE Returned(default)

\* ------------------------------------------------------------ mine-patterns

Jobs == {"J1", "J2"}

NumericFields ==
    {"min_pattern_size", "max_pattern_size", "min_neighborhood_size",
     "max_neighborhood_size", "n_neighborhoods", "n_trials", "out_batch_size"}
CatFields ==
    {"graph_type", "search_strategy", "sample_method", "graph_output_format"}
Fields == NumericFields \cup CatFields

greedy == <<"g", "r", "e", "e", "d", "y">>
tree == <<"t", "r", "e", "e">>
representative ==
    <<"r", "e", "p", "r", "e", "s", "e", "n", "t", "a", "t", "i", "v", "e">>
directed == <<"d", "i", "r", "e", "c", "t", "e", "d">>

\* The parameter defaults of the endpoint's signature: what the handler
\* receives for a parameter the client does not send.
SignatureDefaults ==
    [min_pattern_size      |-> Some(<<"3">>),
     max_pattern_size      |-> Some(<<"5">>),
     min_neighborhood_size |-> Some(<<"3">>),
     max_neighborhood_size |-> Some(<<"5">>),
     n_neighborhoods       |-> Some(<<"5", "0", "0">>),
     n_trials              |-> Some(<<"1", "0", "0">>),
     out_batch_size        |-> Some(<<"3">>),
     graph_type            |-> None,
     search_strategy       |-> Some(greedy),
     sample_method         |-> Some(tree),
     graph_output_format   |-> Some(representative)]

\* Client inputs that are enumerated: one parameter takes every string over
\* its alphabet up to MaxLen (or None), the others come from a template.
NumAlphabet == {"1", "5", " ", "a", "-"}
CatAlphabet == {"t", "T", " "}
ExtraNumStrings ==
    {<<"1", "_", "0">>, <<"5", "_", "_", "5">>, <<"_", "5">>, <<"+", "5">>,
     <<" ", "5", "0", "0", " ">>, <<"5", " ", "1">>, <<"a", "b", "c">>}
NumStrings == SeqsUpTo(NumAlphabet, MaxLen) \cup ExtraNumStrings
CatStrings == SeqsUpTo(CatAlphabet, MaxLen)
FormValues(f) ==
    {None} \cup {Some(s) : s \in (IF f \in NumericFields THEN NumStrings ELSE CatStrings)}
AbsentForm == [f \in Fields |-> None]
ScenarioForm ==
    [SignatureDefaults EXCEPT !["min_pattern_size"] = Some(<<>>),
                              !["max_pattern_size"] = Some(<<"5">>),
                              !["out_batch_size"] = Some(<<"a", "b", "c">>),
                              !["search_strategy"] = Some(<<" ", "G", "r", "e", "e", "d", "y">>)]
Templates == {AbsentForm, ScenarioForm}
GraphTypeInputs == {directed, <<"D", "i", "r", "e", "c", "t", "e", "d", " ">>}

NoConfig == [f \in Fields |-> IF f \in NumericFields THEN 0 ELSE <<>>]

\* `x or default` for an Optional[str]: None and "" are falsy.
OrDefault(x, default) == IF x.some /\ x.val /= <<>> THEN x.val ELSE default

\* The job's recorded graph type, or the fallback when none is recorded.
get_graph_type_from_metadata(job) ==
    IF metadata[job].some THEN metadata[job].val ELSE directed

\* Lines 97-140: every entry of the dict is the outcome of the expression
\* that computes it.
BuildMiningConfig(form, job) ==
    [min_pattern_size      |-> _parse_int_form(form.min_pattern_size, 3),
     max_pattern_size      |-> _parse_int_form(form.max_pattern_size, 5),
     min_neighborhood_size |-> _parse_int_form(form.min_neighborhood_size, 3),
     max_neighborhood_size |-> _parse_int_form(form.max_neighborhood_size, 5),
     n_neighborhoods       |-> _parse_int_form(form.n_neighborhoods, 500),
     n_trials              |-> _parse_int_form(form.n_trials, 100),
     out_batch_size        |-> _parse_int_form(form.out_batch_size, 3),
     graph_type            |->
         IF ~(form.graph_type.some /\ form.graph_type.val /= <<>>
              /\ Strip(form.graph_type.val) /= <<>>)
         THEN Returned(get_graph_type_from_metadata(job))
         ELSE Returned(Lower(Strip(form.graph_type.val))),
     search_strategy       |-> Returned(Lower(Strip(OrDefault(form.search_strategy, greedy)))),
     sample_method         |-> Returned(Lower(Strip(OrDefault(form.sample_method, tree)))),
     graph_output_format   |->
         Returned(Lower(Strip(OrDefault(form.graph_output_format, representative))))]

\* POST /mine-patterns up to the call of the mining stage.
mine_patterns(job, form) ==
    /\ mine_pc = "idle"
    /\ mine_job' = job
    /\ mine_form' = form
    /\ \E cfg \in {BuildMiningConfig(form, job)} :
           IF \E f \in Fields : cfg[f].raised
           THEN /\ mine_pc' = "raised"
                /\ mining_config' = NoConfig
           ELSE /\ mine_pc' = "mining"
                /\ mining_config' = [f \in Fields |-> cfg[f].val]
    /\ UNCHANGED <<metadata, genVars, readVars>>

\* The mining stage answers (or fails) and the request ends.
MineReturns ==
    /\ mine_pc \in {"mining", "raised"}
    /\ mine_pc' = "idle"
    /\ mine_form' = AbsentForm
    /\ mining_config' = NoConfig
    /\ UNCHANGED <<mine_job, metadata, genVars, readVars>>

\* Graph generation records the graph type it was called with.
RecordGraphType(job, gt) ==
    /\ mine_pc = "idle"
    /\ metadata' = [metadata EXCEPT ![job] = Some(gt)]
    /\ UNCHANGED <<mine_pc, mine_job, mine_form, mining_config, genVars, readVars>>

InitMine ==
    /\ mine_pc = "idle"
    /\ mine_job = "J1"
    /\ mine_form = AbsentForm
    /\ mining_config = NoConfig
    /\ metadata = [j \in Jobs |-> None]

NextMine ==
    \/ \E job \in Jobs, t \in Templates, f \in Fields :
           \E v \in FormValues(f) : mine_patterns(job, [t EXCEPT ![f] = v])
    \/ MineReturns
    \/ \E job \in Jobs, gt \in GraphTypeInputs : RecordGraphType(job, gt)


\* ----------------------------------------------------------- generate-graph
\* Largest number of files uploaded by one generate-graph request.
MaxFiles == 2


Requests == {"r1", "r2"}
Payloads == {1, 2}

csv_suffix == <<".", "c", "s", "v">>
a_csv == <<"a", ".", "c", "s", "v">>
data_txt == <<"d", "a", "t", "a", ".", "t", "x", "t">>
b_CSV == <<"b", ".", "C", "S", "V">>
FileNames == {a_csv, data_txt, b_CSV}
NonEmptySeqsUpTo(A, n) == SeqsUpTo(A, n) \ {<<>>}
Uploads == NonEmptySeqsUpTo(FileNames, MaxFiles)

\* str.endswith
EndsWith(s, suffix) ==
    /\ Len(s) >= Len(suffix)
    /\ SubSeq(s, Len(s) - Len(suffix) + 1, Len(s)) = suffix

\* Lines 37-39 with the loop cut after the first file.
AllCsv_first_only(fs) == EndsWith(fs[1], csv_suffix)

\* Lines 37-39: the validation loop raises at the first file that does not
\* end with '.csv'; it passes when there is none.
AllCsv(fs) == \A i \in 1..Len(fs) : EndsWith(fs[i], csv_suffix)

\* A file of the process-wide temporary directory.
Absent == [exists |-> FALSE, content |-> 0]
Holding(k) == [exists |-> TRUE, content |-> k]
Truncated == [exists |-> TRUE, content |-> 0]

\* Lines 78-83 with the schema file forgotten.
GnFinally_config_only(tmp) == [config |-> Absent, schema |-> tmp.schema]

\* Lines 78-83: the finally clause unlinks each of the two paths that exists.
GnFinally(tmp) ==
    [config |-> IF tmp.config.exists THEN Absent ELSE tmp.config,
     schema |-> IF tmp.schema.exists THEN Absent ELSE tmp.schema]

NoError == [some |-> FALSE, val |-> ""]
NoResult == [kind |-> "none", status |-> "", error |-> NoError]
FallbackDetail == "Graph generation failed (AtomSpace error)"
BuilderErrors == {NoError, [some |-> TRUE, val |-> "builder: bad schema"]}

\* How _generate_networkx ends.
GnReturned == [kind |-> "returned", logical |-> FALSE, error |-> NoError]
GnRaised == [kind |-> "raised", logical |-> FALSE, error |-> NoError]
GnRaisedLogical(err) == [kind |-> "raised", logical |-> TRUE, error |-> err]

\* The public wrapper the endpoint calls (with graph_type and
\* cleanup_dir=temp_dir): it hands back the generation's result, reports a
\* failure the builder itself reported as a result whose status is "error",
\* and lets every other exception propagate.  Its documented successful path
\* does not remove the staging directory, so temp_dir is left to the endpoint.
generate_networkx(inner) ==
    IF inner.kind = "returned"
    THEN [kind |-> "returned", status |-> "ok", error |-> NoError]
    ELSE IF inner.logical
    THEN [kind |-> "returned", status |-> "error", error |-> inner.error]
    ELSE [kind |-> "raised", status |-> "", error |-> NoError]

\* Lines 62-76 with the status test of line 64 left out.
ResultToResponse_no_502(res) ==
    IF res.kind = "raised"
    THEN [status |-> 500, detail |-> "Internal Server Error", rmtree |-> TRUE]
    ELSE [status |-> 200, detail |-> "", rmtree |-> FALSE]

\* Lines 62-76: what the endpoint does with the outcome of the call.  An
\* exception reaches the except clause, which removes temp_dir and re-raises
\* it; the HTTPException of line 65 is raised inside the try and takes the
\* same way.  An exception that is no HTTPException leaves as a 500.
ResultToResponse(res) ==
    IF res.kind = "raised"
    THEN [status |-> 500, detail |-> "Internal Server Error", rmtree |-> TRUE]
    ELSE IF res.status = "error"
    THEN [status |-> 502,
          detail |-> IF res.error.some THEN res.error.val ELSE FallbackDetail,
          rmtree |-> TRUE]
    ELSE [status |-> 200, detail |-> "", rmtree |-> FALSE]

\* The endpoint's exit after the orchestration call ended as `inner`.
FinishRequest(r, inner) ==
    LET res  == generate_networkx(inner)
        resp == ResultToResponse(res)
    IN  /\ pc' = [pc EXCEPT ![r] = "done"]
        /\ gn_outcome' = [gn_outcome EXCEPT ![r] = inner.kind]
        /\ orch_result' = [orch_result EXCEPT ![r] = res]
        /\ http_status' = [http_status EXCEPT ![r] = resp.status]
        /\ detail' = [detail EXCEPT ![r] = resp.detail]
        /\ temp_dir' = [temp_dir EXCEPT ![r] =
                            IF resp.rmtree /\ temp_dir[r] = "exists"
                            THEN "removed" ELSE temp_dir[r]]

SetTmp(tmp) ==
    /\ config_file' = tmp.config
    /\ schema_file' = tmp.schema

\* Lines 35-43: validation, then mkdtemp.
Receive(r, fs, k) ==
    /\ UNCHANGED <<mineVars, readVars>>
    /\ pc[r] = "idle"
    /\ files' = [files EXCEPT ![r] = fs]
    /\ payload' = [payload EXCEPT ![r] = k]
    /\ IF ~AllCsv(fs)
       THEN /\ pc' = [pc EXCEPT ![r] = "done"]
            /\ http_status' = [http_status EXCEPT ![r] = 400]
            /\ detail' = [detail EXCEPT ![r] = "Only CSV files are allowed"]
            /\ UNCHANGED temp_dir
       ELSE /\ pc' = [pc EXCEPT ![r] = "staging"]
            /\ temp_dir' = [temp_dir EXCEPT ![r] = "exists"]
            /\ UNCHANGED <<http_status, detail>>
    /\ UNCHANGED <<staged, called, open_handles, gn_outcome, orch_result,
                   replicated, config_file, schema_file>>

\* Lines 46-51: one upload is read and written into temp_dir, or the write
\* fails and the except clause (lines 71-76) removes temp_dir.
StageFile(r, ok) ==
    /\ UNCHANGED <<mineVars, readVars>>
    /\ pc[r] = "staging"
    /\ staged[r] < Len(files[r])
    /\ IF ok
       THEN /\ staged' = [staged EXCEPT ![r] = @ + 1]
            /\ UNCHANGED <<pc, temp_dir, http_status, detail>>
       ELSE /\ pc' = [pc EXCEPT ![r] = "done"]
            /\ temp_dir' = [temp_dir EXCEPT ![r] = "removed"]
            /\ http_status' = [http_status EXCEPT ![r] = 500]
            /\ detail' = [detail EXCEPT ![r] = "Internal Server Error"]
            /\ UNCHANGED staged
    /\ UNCHANGED <<files, payload, called, open_handles, gn_outcome, orch_result,
                   replicated, config_file, schema_file>>

\* Line 53, then _generate_networkx lines 30-56 up to the await of the
\* upload: the payload files are written to the two fixed paths and the
\* data files are opened.  fault: "none", "write_config", "write_schema"
\* (the write raises after the file was created) or "open" (opening the
\* last data file raises).
CallGenerate(r, fault) ==
    /\ UNCHANGED <<mineVars, readVars>>
    /\ pc[r] = "staging"
    /\ staged[r] = Len(files[r])
    /\ called' = [called EXCEPT ![r] = TRUE]
    /\ UNCHANGED <<files, payload, staged, replicated>>
    /\ CASE fault = "none" ->
              /\ SetTmp([config |-> Holding(payload[r]), schema |-> Holding(payload[r])])
              /\ open_handles' = [open_handles EXCEPT ![r] = Len(files[r])]
              /\ pc' = [pc EXCEPT ![r] = "posting"]
              /\ UNCHANGED <<temp_dir, gn_outcome, orch_result, http_status, detail>>
         [] fault = "write_config" ->
              /\ SetTmp(GnFinally([config |-> Truncated, schema |-> schema_file]))
              /\ UNCHANGED open_handles
              /\ FinishRequest(r, GnRaised)
         [] fault = "write_schema" ->
              /\ SetTmp(GnFinally([config |-> Holding(payload[r]), schema |-> Truncated]))
              /\ UNCHANGED open_handles
              /\ FinishRequest(r, GnRaised)
         [] fault = "open" ->
              /\ SetTmp(GnFinally([config |-> Holding(payload[r]),
                                   schema |-> Holding(payload[r])]))
              /\ open_handles' = [open_handles EXCEPT ![r] = Len(files[r]) - 1]
              /\ FinishRequest(r, GnRaised)

\* Lines 51-65 after the upload call resumes.  resp: "transport" (the call
\* raises: unreachable, timeout), "non200", "badjson" (response.json()
\* raises), "logical" (a 200 whose body reports the builder's failure and
\* carries no job_id: line 68 raises after the handles were closed) or "ok".
PostReturns(r, resp, err) ==
    /\ UNCHANGED <<mineVars, readVars>>
    /\ pc[r] = "posting"
    /\ UNCHANGED <<files, payload, staged, called, replicated>>
    /\ CASE resp \in {"transport", "non200", "badjson"} ->
              /\ err = NoError
              /\ SetTmp(GnFinally([config |-> config_file, schema |-> schema_file]))
              /\ UNCHANGED open_handles
              /\ FinishRequest(r, GnRaised)
         [] resp = "logical" ->
              /\ SetTmp(GnFinally([config |-> config_file, schema |-> schema_file]))
              /\ open_handles' = [open_handles EXCEPT ![r] = 0]
              /\ FinishRequest(r, GnRaisedLogical(err))
         [] resp = "ok" ->
              /\ err = NoError
              /\ open_handles' = [open_handles EXCEPT ![r] = 0]
              /\ pc' = [pc EXCEPT ![r] = "copying"]
              /\ UNCHANGED <<temp_dir, gn_outcome, orch_result, http_status, detail,
                             config_file, schema_file>>

\* Lines 68-83: the replication into the shared volume ends (a failure in it
\* is printed and swallowed, lines 100-101), the result is returned and the
\* finally clause runs.
CopyReturns(r, copied) ==
    /\ UNCHANGED <<mineVars, readVars>>
    /\ pc[r] = "copying"
    /\ replicated' = [replicated EXCEPT ![r] = IF copied THEN "copied" ELSE "failed"]
    /\ SetTmp(GnFinally([config |-> config_file, schema |-> schema_file]))
    /\ FinishRequest(r, GnReturned)
    /\ UNCHANGED <<files, payload, staged, called, open_handles>>

InitGen ==
    /\ pc = [r \in Requests |-> "idle"]
    /\ files = [r \in Requests |-> <<>>]
    /\ payload = [r \in Requests |-> 0]
    /\ temp_dir = [r \in Requests |-> "none"]
    /\ staged = [r \in Requests |-> 0]
    /\ called = [r \in Requests |-> FALSE]
    /\ open_handles = [r \in Requests |-> 0]
    /\ gn_outcome = [r \in Requests |-> "none"]
    /\ orch_result = [r \in Requests |-> NoResult]
    /\ replicated = [r \in Requests |-> "none"]
    /\ http_status = [r \in Requests |-> 0]
    /\ detail = [r \in Requests |-> ""]
    /\ config_file = Absent
    /\ schema_file = Absent

NextGen ==
    \/ \E r \in Requests, fs \in Uploads, k \in Payloads : Receive(r, fs, k)
    \/ \E r \in Requests, ok \in BOOLEAN : StageFile(r, ok)
    \/ \E r \in Requests, fault \in {"none", "write_config", "write_schema", "open"} :
           CallGenerate(r, fault)
    \/ \E r \in Requests, err \in BuilderErrors,
          resp \in {"transport", "non200", "badjson", "logical", "ok"} :
           PostReturns(r, resp, err)
    \/ \E r \in Requests, copied \in BOOLEAN : CopyReturns(r, copied)

\* ------------------------------------------------------ exception classes
\* The built-in exception classes that occur, each with its base class.
BaseOf(c) ==
    CASE c = "PermissionError" -> "OSError"
      [] c = "FileNotFoundError" -> "OSError"
      [] c = "OSError" -> "Exception"
      [] c = "JSONDecodeError" -> "ValueError"
      [] c = "ValueError" -> "Exception"
      [] c = "RuntimeError" -> "Exception"
      [] OTHER -> "Exception"
RECURSIVE IsInstance(_, _)
IsInstance(c, cls) ==
    \/ c = cls
    \/ c /= "Exception" /\ IsInstance(BaseOf(c), cls)

\* The first except clause whose class the exception is an instance of.
RECURSIVE FirstMatch(_, _)
FirstMatch(clauses, exc) ==
    IF clauses = <<>> THEN 0
    ELSE IF IsInstance(exc, Head(clauses).cls) THEN Head(clauses).status
    ELSE FirstMatch(Tail(clauses), exc)

\* ---------------------------------------------------------------- Job Store
NoDir == [exists |-> FALSE, results |-> {}]
NoPayload == [status |-> "", progress |-> 0, message |-> <<>>]
NoProgress == [state |-> "absent", data |-> NoPayload]
PartialProgress == [state |-> "partial", data |-> NoPayload]
ValidProgress(rec) == [state |-> "valid", data |-> rec]
NotRead == [state |-> "none", data |-> NoPayload]
ProgressRecords ==
    {[status |-> "running", progress |-> 50, message |-> <<"mining">>],
     [status |-> "completed", progress |-> 100, message |-> <<"done">>]}

\* The miner starts to write the job's progress record: the file exists and
\* does not hold a whole JSON document yet.
BeginWrite(j) ==
    /\ progress' = [progress EXCEPT ![j] = PartialProgress]
    /\ job_dir' = [job_dir EXCEPT ![j].exists = TRUE]
    /\ UNCHANGED <<st_pc, st_job, st_read, st_outcome, dl_pc, dl_job, dl_filename,
                   dl_exc, dl_status, mineVars, genVars>>

\* The write completes.
FinishWrite(j, rec) ==
    /\ progress[j].state = "partial"
    /\ progress' = [progress EXCEPT ![j] = ValidProgress(rec)]
    /\ UNCHANGED <<job_dir, st_pc, st_job, st_read, st_outcome, dl_pc, dl_job,
                   dl_filename, dl_exc, dl_status, mineVars, genVars>>

\* A result file is put into the job's directory.
StoreResult(j) ==
    /\ job_dir' = [job_dir EXCEPT ![j] = [exists |-> TRUE, results |-> {"result.json"}]]
    /\ UNCHANGED <<progress, st_pc, st_job, st_read, st_outcome, dl_pc, dl_job,
                   dl_filename, dl_exc, dl_status, mineVars, genVars>>

\* The job's directory is removed by an operator.
RemoveJob(j) ==
    /\ job_dir[j].exists
    /\ job_dir' = [job_dir EXCEPT ![j] = NoDir]
    /\ progress' = [progress EXCEPT ![j] = NoProgress]
    /\ UNCHANGED <<st_pc, st_job, st_read, st_outcome, dl_pc, dl_job, dl_filename,
                   dl_exc, dl_status, mineVars, genVars>>

\* A path below the file system's root, as its components; ".." goes up.
RECURSIVE Resolve(_, _)
Resolve(at, comps) ==
    IF comps = <<>> THEN at
    ELSE IF Head(comps) = ".."
    THEN Resolve(IF at = <<>> THEN at ELSE SubSeq(at, 1, Len(at) - 1), Tail(comps))
    ELSE Resolve(Append(at, Head(comps)), Tail(comps))
JobRoot(job) == <<"shared", "output", job>>
InsideJob(job, path) ==
    /\ Len(path) > 3
    /\ SubSeq(path, 1, 3) = JobRoot(job)

\* Single-file retrieval: the name is resolved within the job's directory;
\* leaving it is a permission failure, a file that is not there a not-found
\* failure.
get_result_file_path(job, filename) ==
    LET path == Resolve(JobRoot(job), filename)
    IN  IF ~InsideJob(job, path) THEN "PermissionError"
        ELSE IF job_dir[job].exists /\ Len(path) = 4 /\ path[4] \in job_dir[job].results
        THEN ""
        ELSE "FileNotFoundError"

\* Archive operation: fails with not-found when the job's directory does not
\* exist, and with the archiving's own failure otherwise.
create_job_archive(job, fault) ==
    IF ~job_dir[job].exists THEN "FileNotFoundError" ELSE fault

\* ------------------------------------------------------------ download-result
ExceptClauses_generic_first ==
    <<[cls |-> "Exception", status |-> 500],
      [cls |-> "PermissionError", status |-> 403],
      [cls |-> "FileNotFoundError", status |-> 404]>>
MapException_generic_first(exc) == FirstMatch(ExceptClauses_generic_first, exc)

\* Lines 169-174: the except clauses, in their order.
ExceptClauses ==
    <<[cls |-> "PermissionError", status |-> 403],
      [cls |-> "FileNotFoundError", status |-> 404],
      [cls |-> "Exception", status |-> 500]>>
MapException(exc) == FirstMatch(ExceptClauses, exc)

DownloadNames ==
    {None, Some(<<>>), Some(<<"result.json">>), Some(<<"missing.txt">>),
     Some(<<"..", "..", "etc", "passwd">>), Some(<<"..", "J2", "result.json">>),
     Some(<<"sub", "..", "result.json">>)}
ArchiveFaults == {"", "RuntimeError", "OSError", "PermissionError"}

\* Lines 150-174.  `if filename` is false for None and for "".
download_result(job, filename, fault) ==
    /\ dl_pc = "idle"
    /\ dl_pc' = "done"
    /\ dl_job' = job
    /\ dl_filename' = filename
    /\ \E exc \in {IF filename.some /\ filename.val /= <<>>
                   THEN get_result_file_path(job, filename.val)
                   ELSE create_job_archive(job, fault)} :
           /\ dl_exc' = exc
           /\ dl_status' = IF exc = "" THEN 200 ELSE MapException(exc)
    /\ UNCHANGED <<job_dir, progress, st_pc, st_job, st_read, st_outcome,
                   mineVars, genVars>>

DownloadEnds ==
    /\ dl_pc = "done"
    /\ dl_pc' = "idle"
    /\ dl_filename' = None
    /\ dl_exc' = ""
    /\ dl_status' = 0
    /\ UNCHANGED <<dl_job, job_dir, progress, st_pc, st_job, st_read, st_outcome,
                   mineVars, genVars>>

\* -------------------------------------------------------------- mining-status
PendingPayload ==
    [status |-> "pending", progress |-> 0, message |-> <<"Waiting for miner to start...">>]
ErrorPayload(exc) ==
    [status |-> "error", progress |-> 0, message |-> <<"Error checking status: ", exc>>]
StRaised == [raised |-> TRUE, val |-> NoPayload]

\* Lines 193-194: open() and json.load() on the progress file as it is now.
ReadProgress(p) ==
    CASE p.state = "absent" -> [exc |-> "FileNotFoundError", data |-> NoPayload]
      [] p.state = "partial" -> [exc |-> "JSONDecodeError", data |-> NoPayload]
      [] OTHER -> [exc |-> "", data |-> p.data]

\* Lines 192-204 with an except clause that takes ValueError only.
StatusReadOutcome_value_error_only(p) ==
    IF ReadProgress(p).exc = "" THEN Returned(ReadProgress(p).data)
    ELSE IF IsInstance(ReadProgress(p).exc, "ValueError")
    THEN Returned(ErrorPayload(ReadProgress(p).exc))
    ELSE StRaised

\* Lines 192-204: the record's content, or the error payload of the
\* `except Exception` clause.
StatusReadOutcome(p) ==
    IF ReadProgress(p).exc = "" THEN Returned(ReadProgress(p).data)
    ELSE IF IsInstance(ReadProgress(p).exc, "Exception")
    THEN Returned(ErrorPayload(ReadProgress(p).exc))
    ELSE StRaised

\* Lines 179-190: os.path.exists on the progress file; pending if it is not
\* there.
StatusCheck(j) ==
    /\ st_pc = "idle"
    /\ st_job' = j
    /\ IF progress[j].state = "absent"
       THEN /\ st_pc' = "done"
            /\ st_outcome' = Returned(PendingPayload)
       ELSE /\ st_pc' = "checked"
            /\ UNCHANGED st_outcome
    /\ UNCHANGED <<st_read, job_dir, progress, dl_pc, dl_job, dl_filename, dl_exc,
                   dl_status, mineVars, genVars>>

\* Lines 192-204: the file is opened and parsed, whatever became of it since
\* the test.
StatusRead ==
    /\ st_pc = "checked"
    /\ st_pc' = "done"
    /\ st_read' = progress[st_job]
    /\ st_outcome' = StatusReadOutcome(progress[st_job])
    /\ UNCHANGED <<st_job, job_dir, progress, dl_pc, dl_job, dl_filename, dl_exc,
                   dl_status, mineVars, genVars>>

StatusEnds ==
    /\ st_pc = "done"
    /\ st_pc' = "idle"
    /\ st_read' = NotRead
    /\ st_outcome' = Returned(NoPayload)
    /\ UNCHANGED <<st_job, job_dir, progress, dl_pc, dl_job, dl_filename, dl_exc,
                   dl_status, mineVars, genVars>>

InitRead ==
    /\ job_dir = [j \in Jobs |-> NoDir]
    /\ progress = [j \in Jobs |-> NoProgress]
    /\ st_pc = "idle"
    /\ st_job = "J1"
    /\ st_read = NotRead
    /\ st_outcome = Returned(NoPayload)
    /\ dl_pc = "idle"
    /\ dl_job = "J1"
    /\ dl_filename = None
    /\ dl_exc = ""
    /\ dl_status = 0

NextRead ==
    \/ \E j \in Jobs : BeginWrite(j)
    \/ \E j \in Jobs, rec \in ProgressRecords : FinishWrite(j, rec)
    \/ \E j \in Jobs : StoreResult(j)
    \/ \E j \in Jobs : RemoveJob(j)
    \/ \E j \in Jobs, fn \in DownloadNames, fault \in ArchiveFaults :
           download_result(j, fn, fault)
    \/ DownloadEnds
    \/ \E j \in Jobs : StatusCheck(j)
    \/ StatusRead
    \/ StatusEnds

Init == InitMine /\ InitGen /\ InitRead

SpecMine == Init /\ [][NextMine]_vars
SpecGen == Init /\ [][NextGen]_vars
SpecRead == Init /\ [][NextRead]_vars

\* ------------------------------------------------- claims on mine-patterns
\* The defaults the specification documents for the numeric parameters.
DocumentedDefault ==
    [min_pattern_size |-> 3, max_pattern_size |-> 5, min_neighborhood_size |-> 3,
     max_neighborhood_size |-> 5, n_neighborhoods |-> 500, n_trials |-> 100,
     out_batch_size |-> 3]
DocumentedCatDefault ==
    [graph_type |-> directed, search_strategy |-> greedy, sample_method |-> tree,
     graph_output_format |-> representative]

IsIntegerString(v) == v.some /\ PyInt(Strip(v.val)).ok
IsLowerTrimmed(s) ==
    /\ s /= <<>> => (s[1] \notin Whitespace /\ s[Len(s)] \notin Whitespace)
    /\ \A i \in 1..Len(s) : s[i] \notin UpperChars

\* C1: every numeric mining parameter resolves to the parsed integer when the
\* trimmed value is an integer string and to the field's documented default
\* otherwise (missing, empty, blank, not an integer); the coercion never
\* raises, so the mining stage always receives an integer in a numeric slot.
C1_NumericCoercion ==
    /\ mine_pc /= "raised"
    /\ mine_pc = "mining" =>
           \A f \in NumericFields :
               /\ mining_config[f] \in Int
               /\ IF IsIntegerString(mine_form[f])
                  THEN mining_config[f] = PyInt(Strip(mine_form[f].val)).val
                  ELSE mining_config[f] = DocumentedDefault[f]

\* The specification's scenario, with n_trials="-5" and n_neighborhoods absent.
C1_Witness ==
    /\ mine_pc = "mining"
    /\ mine_form.min_pattern_size = Some(<<>>)
    /\ mine_form.max_pattern_size = Some(<<"5">>)
    /\ mine_form.out_batch_size = Some(<<"a", "b", "c">>)
    /\ mine_form.n_trials = Some(<<"-", "5">>)
    /\ mining_config.min_pattern_size = 3
    /\ mining_config.max_pattern_size = 5
    /\ mining_config.out_batch_size = 3
    /\ mining_config.n_trials = 0 - 5

\* C7: all four categorical parameters reach the mining stage lower-cased and
\* trimmed, also a graph_type resolved from the job's metadata; an absent
\* categorical parameter resolves to its documented default.
C7_CategoricalNormalised ==
    mine_pc = "mining" =>
        \A f \in CatFields :
            /\ IsLowerTrimmed(mining_config[f])
            /\ (f /= "graph_type" /\ ~mine_form[f].some)
                   => mining_config[f] = DocumentedCatDefault[f]
            /\ (f = "graph_type" /\ ~mine_form[f].some /\ ~metadata[mine_job].some)
                   => mining_config[f] = DocumentedCatDefault[f]

\* What the code does guarantee: the parameters taken from the request itself
\* are lower-cased and trimmed.
C7_RequestSuppliedNormalised ==
    mine_pc = "mining" =>
        \A f \in CatFields :
            (f /= "graph_type" \/ (mine_form[f].some /\ Strip(mine_form[f].val) /= <<>>))
                => IsLowerTrimmed(mining_config[f])

\* ------------------------------------------------ claims on generate-graph
BadUpload(fs) == \E i \in 1..Len(fs) : ~EndsWith(fs[i], csv_suffix)

\* C2: the staging directory a generate-graph request created is removed on
\* every exit path of the request, the successful one included.
C2_StagingDirRemoved ==
    \A r \in Requests :
        (pc[r] = "done" /\ temp_dir[r] /= "none") => temp_dir[r] = "removed"

\* What the code does guarantee: the directory is removed whenever the
\* request fails after creating it.
C2_RemovedOnFailure ==
    \A r \in Requests :
        (pc[r] = "done" /\ temp_dir[r] /= "none" /\ http_status[r] /= 200)
            => temp_dir[r] = "removed"

\* C3: a result whose status is "error" reaches the client as a 502 with the
\* builder's error text, never as 200 or 500; an exception of the
\* orchestration call never reaches the client as a 502.
C3_LogicalErrorIs502 ==
    \A r \in Requests :
        (pc[r] = "done" /\ called[r]) =>
            /\ (orch_result[r].kind = "returned" /\ orch_result[r].status = "error")
                   => /\ http_status[r] = 502
                      /\ orch_result[r].error.some => detail[r] = orch_result[r].error.val
            /\ orch_result[r].kind = "raised" => http_status[r] = 500

C3_Witness ==
    \E r \in Requests :
        /\ pc[r] = "done"
        /\ orch_result[r].status = "error"
        /\ http_status[r] = 502
        /\ detail[r] = "builder: bad schema"

\* C4: a request with a file that does not end with .csv, at any position, is
\* answered 400 and nothing is staged: no temporary directory, no file
\* written, no orchestration call.
C4_BadExtensionRejected ==
    \A r \in Requests :
        (pc[r] /= "idle" /\ BadUpload(files[r])) =>
            /\ pc[r] = "done"
            /\ http_status[r] = 400
            /\ temp_dir[r] = "none"
            /\ staged[r] = 0
            /\ ~called[r]
            /\ gn_outcome[r] = "none"
            /\ open_handles[r] = 0

\* The offending file is the last one, after a good one.
C4_Witness ==
    \E r \in Requests :
        /\ files[r] = <<a_csv, data_txt>>
        /\ http_status[r] = 400
        /\ temp_dir[r] = "none"

\* C8: at the step in which _generate_networkx returns or raises, neither the
\* config file nor the schema file exists any more.
C8_PayloadFilesRemoved ==
    [][\A r \in Requests :
           (gn_outcome[r] = "none" /\ gn_outcome'[r] /= "none")
               => (~config_file'.exists /\ ~schema_file'.exists)]_vars

\* One request's generation raised after its upload call (its handles are
\* still open), another's returned, and no payload file is left.
C8_Witness ==
    /\ \E r \in Requests : gn_outcome[r] = "raised" /\ open_handles[r] > 0 /\ called[r]
    /\ \E r \in Requests : gn_outcome[r] = "returned"
    /\ ~config_file.exists
    /\ ~schema_file.exists

\* C9: while a request is in flight between writing its payload files and its
\* own cleanup, the two files exist and hold that request's config and schema.
C9_PayloadFilesOwned ==
    \A r \in Requests :
        pc[r] \in {"posting", "copying"} =>
            /\ config_file = Holding(payload[r])
            /\ schema_file = Holding(payload[r])

\* C10: once _generate_networkx has returned or raised, none of the data-file
\* handles it opened is still open.
C10_HandlesClosed ==
    \A r \in Requests : gn_outcome[r] /= "none" => open_handles[r] = 0

\* ----------------------------------- claims on mining-status and download
\* C5: get_mining_status never raises; it answers pending/0 when the progress
\* file does not exist, the record's content when it is read, and a payload
\* of status error when the read or the parse fails.
C5_StatusNeverRaises ==
    /\ ~st_outcome.raised
    /\ st_pc = "done" =>
           CASE st_read.state = "none" ->
                    /\ st_outcome.val.status = "pending"
                    /\ st_outcome.val.progress = 0
                    /\ st_outcome.val.message = <<"Waiting for miner to start...">>
             [] st_read.state = "valid" -> st_outcome.val = st_read.data
             [] OTHER -> st_outcome.val.status = "error"

\* The record existed at the test and was gone at the read.
C5_Witness ==
    /\ st_pc = "done"
    /\ st_read.state = "absent"
    /\ ~st_outcome.raised
    /\ st_outcome.val.status = "error"

\* C6: a failing download-result reports 403 for a permission failure, 404
\* for a not-found failure and 500 for any other failure, on the single-file
\* and on the archive path.
C6_DownloadFailureCategories ==
    (dl_pc = "done" /\ dl_exc /= "") =>
        dl_status = CASE dl_exc = "PermissionError" -> 403
                      [] dl_exc = "FileNotFoundError" -> 404
                      [] OTHER -> 500

\* A path that leaves the job's directory, answered 403.
C6_Witness ==
    /\ dl_pc = "done"
    /\ dl_filename = Some(<<"..", "..", "etc", "passwd">>)
    /\ dl_exc = "PermissionError"
    /\ dl_status = 403

====
